---------------------------- MODULE Spec2Model ----------------------------
(***************************************************************************)
(* Model of baseplate/clients/sqlalchemy.py: the SQLAlchemy context        *)
(* factories, their cursor-execution hooks and the session span observer.  *)
(*                                                                         *)
(* The hooks and factories are translated from the source.  The tracing    *)
(* spans (baseplate.Span) and the engine, pool and ORM session of          *)
(* SQLAlchemy are the collaborators the source calls; they are modelled by *)
(* the contract the source consumes.                                       *)
(***************************************************************************)
EXTENDS Integers, Sequences, FiniteSets, TLC

\* ------------------------------------------------------------------ bounds
NumRequests == 2      \* concurrent requests, one root span each
NumConns == 2         \* connections of the pool
MaxHandles == 2       \* make_object_for_context calls in a run
MaxFinishes == 2      \* times the finish of one root span is signalled

Requests == 1..NumRequests
Conns == 1..NumConns

\* ------------------------------------------------------------ Python values
None == "None"

\* an exception object; type(e) is its class
Exc(cls, msg) == [cls |-> cls, msg |-> msg]
type(e) == e.cls
\* "no exception was raised"
NoExc == Exc("None", "")
\* exc_info of a finish without error (Python None); an error is a 3-tuple
NoExcInfo == <<>>

\* conn.info: the "span" key is missing (a fresh connection), or holds
\* None (span = 0), or holds the span numbered span
InfoEmpty == [has |-> FALSE, span |-> 0]
InfoNone == [has |-> TRUE, span |-> 0]
InfoSpan(i) == [has |-> TRUE, span |-> i]

\* exceptions the driver raises while executing on a cursor
DriverErrors == {Exc("OperationalError", "server closed the connection"),
                 Exc("IntegrityError", "duplicate key")}
\* the exception a failing Session.close() raises
CloseError == Exc("InvalidRequestError", "close failed")
\* exceptions a request handler ends with
HandlerError == Exc("ValueError", "bad request")

\* the (statement, parameters) pairs callers execute
Calls == {[statement |-> "SELECT 1", parameters |-> <<>>],
          [statement |-> "INSERT INTO t VALUES (?)", parameters |-> <<5>>]}
\* the attribute names the request context binds its objects to, in the
\* order the objects are made
Names == <<"users_db", "db", "events_db", "audit_db">>

\* ------------------------------------------------------------- formatting
DigitChars == "0123456789"
DigitChar(d) == SubSeq(DigitChars, d + 1, d + 1)

RECURSIVE FormatD(_)
\* format(n, "d"): the decimal digits of n, "-" first when n is negative
FormatD(n) ==
    IF n < 0 THEN "-" \o FormatD(0 - n)
    ELSE IF n < 10 THEN DigitChar(n)
    ELSE FormatD(n \div 10) \o DigitChar(n % 10)

\* ------------------------------------------------------------ baseplate.Span
\* the trace id of the root span of request r, and the id of the span in
\* place k of the span table
TraceIdOf(r) == 1000 * r + 7
SpanIdOf(k) == 13 * k - 4

RootSpan(r) ==
    [id |-> SpanIdOf(r), trace_id |-> TraceIdOf(r), parent |-> 0,
     name |-> "request", statement |-> None, starts |-> 1, finishes |-> 0,
     exc_info |-> NoExcInfo]

\* the first free place of the span table
Fresh(sp) ==
    CHOOSE k \in 1..(Cardinality(DOMAIN sp) + 1) :
        /\ k \notin DOMAIN sp
        /\ \A j \in 1..(k - 1) : j \in DOMAIN sp

\* Span.make_child(name): a new span of the same trace, with a fresh id
make_child(sp, parent, name) ==
    sp @@ (Fresh(sp) :>
           [id |-> SpanIdOf(Fresh(sp)), trace_id |-> sp[parent].trace_id,
            parent |-> parent, name |-> name, statement |-> None,
            starts |-> 0, finishes |-> 0, exc_info |-> NoExcInfo])

\* Span.set_tag("statement", value)
set_tag(sp, i, value) == [sp EXCEPT ![i].statement = value]

\* Span.start()
start(sp, i) == [sp EXCEPT ![i].starts = @ + 1]

\* Span.finish(exc_info)
finish(sp, i, exc_info) ==
    [sp EXCEPT ![i].finishes = @ + 1, ![i].exc_info = exc_info]

\* a finished span that no "span" slot refers to is dropped by the
\* interpreter; root spans stay
collect(sp, inf) ==
    LET keep == {i \in DOMAIN sp :
                    \/ i \in Requests
                    \/ sp[i].finishes = 0
                    \/ \E c \in Conns : inf[c].has /\ inf[c].span = i}
    IN [i \in keep |-> sp[i]]

\* ------------------------------------------------------------------- state
VARIABLES
    engine,     \* the factory's engine: its execution options and listeners
    asked,      \* asked[h]: the arguments of the call that made handles[h]
    pc,         \* pc[r]: "ready", "executing" (between the hooks of one
                \* statement) or "ended" (the root span has finished)
    handles,    \* the objects make_object_for_context has returned
    observers,  \* observers[r]: the observers registered on root span r
    spans,      \* the spans alive; spans[r] is the root span of request r
    info,       \* info[c]: the "span" slot of conn.info of connection c
    pool,       \* pool[c]: checkouts of connection c minus its checkins
    cur,        \* cur[r]: the statement request r is executing
    madeOn,     \* madeOn[i]: the connection whose statement made span i
    last,       \* the database operation that returned to its caller last
    result,     \* result[r]: what the on_finish calls of the latest finish of
                \* root span r raised, in the order of the observers
    build,      \* an engine_from_config call: its arguments and its outcome
    qpool,      \* the engine's pool as report_runtime_metrics reads it, and
                \* the gauges of the metrics batch
    probe       \* a before_cursor_execute event on a connection of any
                \* engine handle: its arguments and its outcome

\* what the requests of a serving process change
serving == <<engine, asked, pc, handles, observers, spans, info, pool, cur,
             madeOn, last, result>>
\* what setting up and reporting change
side == <<build, qpool, probe>>
vars == <<serving, side>>

NoCall == [handle |-> 0, conn |-> 0, statement |-> None, parameters |-> <<>>,
           sent |-> <<>>, created |-> {}]
NoOp == [handle |-> 0, statement |-> None, parameters |-> <<>>,
         sent |-> <<>>, created |-> {}, driver |-> NoExc, caller |-> NoExc]

\* ------------------------------------------- SQLAlchemyEngineContextFactory
\* Engine.execution_options(context_name=name, server_span=span): a view of
\* the shared engine carrying the two options; pool and hooks are shared
\* the engine create_engine returns: no execution options, no listeners
BareEngine ==
    [options |-> <<>>,
     listeners |-> [before_cursor_execute |-> <<>>,
                    after_cursor_execute |-> <<>>, handle_error |-> <<>>]]

\* event.listen(target, identifier, fn)
listen(target, identifier, fn) ==
    [target EXCEPT !.listeners[identifier] = Append(@, fn)]

\* Engine.execution_options(**opt): a view of the engine carrying its
\* options updated with opt; pool and listeners are those of the engine
execution_options(target, opt) ==
    [kind |-> "engine", options |-> opt @@ target.options,
     conn |-> 0, work |-> "none", closes |-> 0]

\* SQLAlchemyEngineContextFactory.__init__: the three hooks are installed
\* on the factory's engine
SQLAlchemyEngineContextFactory(target) ==
    listen(listen(listen(target,
        "before_cursor_execute", "on_before_execute"),
        "after_cursor_execute", "on_after_execute"),
        "handle_error", "on_error")

\* make_object_for_context that sets the two options on the shared engine
make_object_for_context_in_place(eng, name, span) ==
    LET opt == [context_name |-> name, server_span |-> span]
    IN [engine |-> [eng EXCEPT !.options = opt @@ @],
        handle |-> execution_options(eng, opt)]

\* make_object_for_context that installs the hooks on every call
make_object_for_context_listening(eng, name, span) ==
    [engine |-> SQLAlchemyEngineContextFactory(eng),
     handle |-> execution_options(eng, [context_name |-> name,
                                        server_span |-> span])]

\* SQLAlchemyEngineContextFactory.make_object_for_context.  Gives the
\* handle and the factory's engine as the call leaves it.
make_object_for_context(eng, name, span) ==
    [engine |-> eng,
     handle |-> execution_options(eng, [context_name |-> name,
                                        server_span |-> span])]

\* on_before_execute that lets the statement through untraced when an option
\* is missing
on_before_execute_untraced(opts, slot, sp, statement, parameters) ==
    IF "context_name" \notin DOMAIN opts \/ "server_span" \notin DOMAIN opts
    THEN [raised |-> NoExc, spans |-> sp, slot |-> slot,
          ret |-> <<statement, parameters>>]
    ELSE
      LET sp1 == make_child(sp, opts.server_span,
                            opts.context_name \o ".execute")
          span == Fresh(sp)
      IN [raised |-> NoExc,
          spans |-> start(set_tag(sp1, span, statement), span),
          slot |-> InfoSpan(span),
          ret |-> <<statement \o " -- trace:" \o FormatD(sp1[span].trace_id)
                             \o ",span:" \o FormatD(sp1[span].id),
                    parameters>>]

\* on_before_execute making every span a child of the first root span
on_before_execute_first_root(opts, slot, sp, statement, parameters) ==
    LET sp1 == make_child(sp, 1, opts.context_name \o ".execute")
        span == Fresh(sp)
    IN [raised |-> NoExc,
        spans |-> start(set_tag(sp1, span, statement), span),
        slot |-> InfoSpan(span),
        ret |-> <<statement \o " -- trace:" \o FormatD(sp1[span].trace_id)
                           \o ",span:" \o FormatD(sp1[span].id), parameters>>]

\* on_before_execute that forgets to store the span on the connection
on_before_execute_unstored(opts, slot, sp, statement, parameters) ==
    LET sp1 == make_child(sp, opts.server_span, opts.context_name \o ".execute")
        span == Fresh(sp)
    IN [raised |-> NoExc, spans |-> start(set_tag(sp1, span, statement), span),
        slot |-> slot,
        ret |-> <<statement \o " -- trace:" \o FormatD(sp1[span].trace_id)
                           \o ",span:" \o FormatD(sp1[span].id), parameters>>]

\* on_before_execute that tags the span with the annotated text
on_before_execute_tags_annotated(opts, slot, sp, statement, parameters) ==
    LET sp1 == make_child(sp, opts.server_span, opts.context_name \o ".execute")
        span == Fresh(sp)
        annotated_statement ==
            statement \o " -- trace:" \o FormatD(sp1[span].trace_id)
                      \o ",span:" \o FormatD(sp1[span].id)
    IN [raised |-> NoExc,
        spans |-> start(set_tag(sp1, span, annotated_statement), span),
        slot |-> InfoSpan(span),
        ret |-> <<annotated_statement, parameters>>]

\* before_cursor_execute hook.  opts is conn._execution_options, slot the
\* "span" entry of conn.info, sp the spans.  Gives the spans and the slot it
\* leaves, what it returns and what it raises.
on_before_execute(opts, slot, sp, statement, parameters) ==
    IF "context_name" \notin DOMAIN opts
    THEN [raised |-> Exc("KeyError", "context_name"), spans |-> sp,
          slot |-> slot, ret |-> <<>>]
    ELSE IF "server_span" \notin DOMAIN opts
    THEN [raised |-> Exc("KeyError", "server_span"), spans |-> sp,
          slot |-> slot, ret |-> <<>>]
    ELSE
      LET trace_name == opts.context_name \o "." \o "execute"
          sp1 == make_child(sp, opts.server_span, trace_name)
          span == Fresh(sp)
          sp2 == set_tag(sp1, span, statement)
          sp3 == start(sp2, span)
          annotated_statement ==
              statement \o " -- trace:" \o FormatD(sp3[span].trace_id)
                        \o ",span:" \o FormatD(sp3[span].id)
      IN [raised |-> NoExc, spans |-> sp3, slot |-> InfoSpan(span),
          ret |-> <<annotated_statement, parameters>>]

\* on_after_execute that finishes the span and leaves it in the slot
on_after_execute_uncleared(slot, sp) ==
    IF ~slot.has THEN [raised |-> Exc("KeyError", "span"), spans |-> sp,
                       slot |-> slot]
    ELSE IF slot.span = 0
    THEN [raised |-> Exc("AttributeError", "finish"), spans |-> sp,
          slot |-> slot]
    ELSE [raised |-> NoExc, spans |-> finish(sp, slot.span, NoExcInfo),
          slot |-> slot]

\* on_after_execute that clears the slot and forgets to finish the span
on_after_execute_unfinished(slot, sp) ==
    [raised |-> NoExc, spans |-> sp, slot |-> InfoNone]

\* after_cursor_execute hook
on_after_execute(slot, sp) ==
    IF ~slot.has
    THEN [raised |-> Exc("KeyError", "span"), spans |-> sp, slot |-> slot]
    ELSE IF slot.span = 0
    THEN [raised |-> Exc("AttributeError", "'NoneType' object has no attribute 'finish'"),
          spans |-> sp, slot |-> slot]
    ELSE [raised |-> NoExc, spans |-> finish(sp, slot.span, NoExcInfo),
          slot |-> InfoNone]

\* on_error that finishes the span as if the statement had succeeded
on_error_without_exc_info(slot, sp, original_exception) ==
    IF slot.has /\ slot.span # 0
    THEN [raised |-> NoExc, spans |-> finish(sp, slot.span, NoExcInfo),
          slot |-> InfoNone]
    ELSE [raised |-> Exc("KeyError", "span"), spans |-> sp, slot |-> slot]

\* on_error that clears the slot and forgets to finish the span
on_error_unfinished(slot, sp, original_exception) ==
    [raised |-> NoExc, spans |-> sp, slot |-> InfoNone]

\* handle_error hook; original_exception is context.original_exception
on_error(slot, sp, original_exception) ==
    LET exc_info == <<type(original_exception), original_exception, None>>
    IN IF ~slot.has
       THEN [raised |-> Exc("KeyError", "span"), spans |-> sp, slot |-> slot]
       ELSE IF slot.span = 0
       THEN [raised |-> Exc("AttributeError", "'NoneType' object has no attribute 'finish'"),
             spans |-> sp, slot |-> slot]
       ELSE [raised |-> NoExc, spans |-> finish(sp, slot.span, exc_info),
             slot |-> InfoNone]


\* ------------------------------------------ SQLAlchemySessionContextFactory
RECURSIVE before_cursor_execute(_, _, _, _, _, _)
\* the before_cursor_execute event: the listeners fns run in the order they
\* were installed, each (retval=True) handed the statement and parameters
\* the one before it returned; what a listener raises ends the event
before_cursor_execute(fns, opts, slot, sp, statement, parameters) ==
    IF fns = <<>>
    THEN [raised |-> NoExc, spans |-> sp, slot |-> slot,
          ret |-> <<statement, parameters>>]
    ELSE LET one == on_before_execute(opts, slot, sp, statement, parameters)
         IN IF one.raised # NoExc THEN one
            ELSE before_cursor_execute(Tail(fns), opts, one.slot, one.spans,
                                       one.ret[1], one.ret[2])

RECURSIVE after_cursor_execute(_, _, _)
\* the after_cursor_execute event
after_cursor_execute(fns, slot, sp) ==
    IF fns = <<>> THEN [raised |-> NoExc, spans |-> sp, slot |-> slot]
    ELSE LET one == on_after_execute(slot, sp)
         IN IF one.raised # NoExc THEN one
            ELSE after_cursor_execute(Tail(fns), one.slot, one.spans)

RECURSIVE handle_error(_, _, _, _)
\* the handle_error event
handle_error(fns, slot, sp, original_exception) ==
    IF fns = <<>> THEN [raised |-> NoExc, spans |-> sp, slot |-> slot]
    ELSE LET one == on_error(slot, sp, original_exception)
         IN IF one.raised # NoExc THEN one
            ELSE handle_error(Tail(fns), one.slot, one.spans,
                              original_exception)

\* QueuePool: connection c goes back to the pool
checkin(pl, c) == IF c = 0 THEN pl ELSE [pl EXCEPT ![c] = @ - 1]

\* Session(bind=engine): a session on the engine handle, holding no connection
Session(bind) == [bind EXCEPT !.kind = "session"]

\* Session.close() and Connection.close(): gives back the connection held
\* and discards pending work without committing it or rolling it back; an
\* object holding nothing is left as it is.  The connection is reclaimed
\* also when close() then raises.
Session_close(s, pl) ==
    [session |-> [s EXCEPT !.conn = 0,
                           !.work = IF @ = "pending" THEN "discarded" ELSE @],
     pool |-> checkin(pl, s.conn)]

\* an observer carrying the first session made, whatever it is given
SQLAlchemySessionSpanObserver_first(session) == [session |-> 1]

\* SQLAlchemySessionSpanObserver(session): the observer carries the session
SQLAlchemySessionSpanObserver(session) == [session |-> session]

\* the session factory forgetting to register the observer
session_make_object_for_context_unregistered(eng, name, span, id) ==
    [engine |-> make_object_for_context(eng, name, span).engine,
     session |-> Session(make_object_for_context(eng, name, span).handle),
     registered |-> <<>>]

\* SQLAlchemySessionContextFactory.make_object_for_context; id is the
\* identity of the new session.  Gives the session and the observers it
\* registers on span.
session_make_object_for_context(eng, name, span, id) ==
    LET made == make_object_for_context(eng, name, span)
        session == Session(made.handle)
    IN [engine |-> made.engine, session |-> session,
        registered |-> <<SQLAlchemySessionSpanObserver(id)>>]

\* on_finish that closes the session of a successful request only
on_finish_only_on_success(s, pl, exc_info, fails) ==
    IF exc_info = NoExcInfo
    THEN [session |-> [Session_close(s, pl).session EXCEPT !.closes = @ + 1],
          pool |-> Session_close(s, pl).pool,
          raised |-> IF fails /\ s.conn # 0 THEN CloseError ELSE NoExc]
    ELSE [session |-> s, pool |-> pl, raised |-> NoExc]

\* on_finish that commits the pending work of a successful request before
\* it closes the session
on_finish_commits_on_success(s, pl, exc_info, fails) ==
    LET t == IF exc_info = NoExcInfo /\ s.work = "pending"
             THEN [s EXCEPT !.work = "committed"] ELSE s
    IN [session |-> [Session_close(t, pl).session EXCEPT !.closes = @ + 1],
        pool |-> Session_close(t, pl).pool,
        raised |-> IF fails /\ s.conn # 0 THEN CloseError ELSE NoExc]

\* SQLAlchemySessionSpanObserver.on_finish: closes the session and nothing
\* else.  fails tells whether giving the connection back fails, which makes
\* session.close() raise; the method has no handler, so what close() raises
\* leaves on_finish.  closes counts the close() calls made here.
on_finish(s, pl, exc_info, fails) ==
    LET closed == Session_close(s, pl)
    IN [session |-> [closed.session EXCEPT !.closes = @ + 1],
        pool |-> closed.pool,
        raised |-> IF fails /\ s.conn # 0 THEN CloseError ELSE NoExc]

RECURSIVE notify(_, _, _, _, _)
\* Span.finish: every registered observer's on_finish runs, in order, each
\* once per finish.  Gives the handles, the pool and what the on_finish
\* calls raised.
notify(obs, hs, pl, exc_info, fails) ==
    IF obs = <<>> THEN [handles |-> hs, pool |-> pl, raised |-> <<>>]
    ELSE LET h == Head(obs).session
             one == on_finish(hs[h], pl, exc_info, fails)
             rest == notify(Tail(obs), [hs EXCEPT ![h] = one.session],
                            one.pool, exc_info, fails)
         IN [rest EXCEPT !.raised = <<one.raised>> \o @]

\* ------------------------------------------------------------------ actions
InitServing ==
    /\ engine = SQLAlchemyEngineContextFactory(BareEngine)
    /\ asked = <<>>
    /\ pc = [r \in Requests |-> "ready"]
    /\ handles = <<>>
    /\ observers = [r \in Requests |-> <<>>]
    /\ spans = [r \in Requests |-> RootSpan(r)]
    /\ info = [c \in Conns |-> InfoEmpty]
    /\ pool = [c \in Conns |-> 0]
    /\ cur = [r \in Requests |-> NoCall]
    /\ madeOn = <<>>
    /\ last = NoOp
    /\ result = [r \in Requests |-> <<>>]

\* a serving process: no engine is being built, no metrics are reported
Init == InitServing /\ build = <<>> /\ qpool = <<>> /\ probe = <<>>

\* madeOn for the spans sp, the new ones made on connection c
MadeOn(sp, c) ==
    [i \in DOMAIN sp \ Requests |-> IF i \in DOMAIN madeOn THEN madeOn[i] ELSE c]

\* what is kept of a call that returns: its spans as they are then
Returned(op, sp) ==
    [handle |-> op.handle, statement |-> op.statement,
     parameters |-> op.parameters, sent |-> op.sent,
     created |-> {sp[i] : i \in op.created}]

Range(f) == {f[i] : i \in DOMAIN f}
Owner(h) == handles[h].options.server_span

\* the request context asks the engine factory for its object
MakeEngineHandle(r, name) ==
    /\ pc[r] = "ready"
    /\ Len(handles) < MaxHandles
    /\ name = Names[Len(handles) + 1]
    /\ LET made == make_object_for_context(engine, name, r)
       IN /\ handles' = Append(handles, made.handle)
          /\ engine' = made.engine
    /\ asked' = Append(asked, [name |-> name, span |-> r])
    /\ UNCHANGED <<pc, observers, spans, info, pool, cur, madeOn, last, result>>
    /\ UNCHANGED side

\* the request context asks the session factory for its object
MakeSessionHandle(r, name) ==
    /\ pc[r] = "ready"
    /\ Len(handles) < MaxHandles
    /\ name = Names[Len(handles) + 1]
    /\ LET made == session_make_object_for_context(engine, name, r,
                                                   Len(handles) + 1)
       IN /\ handles' = Append(handles, made.session)
          /\ engine' = made.engine
          /\ observers' = [observers EXCEPT ![r] = @ \o made.registered]
    /\ asked' = Append(asked, [name |-> name, span |-> r])
    /\ UNCHANGED <<pc, spans, info, pool, cur, madeOn, last, result>>
    /\ UNCHANGED side

\* Engine.connect() / the session's first use: the first free connection
\* of the pool is checked out for the handle; it carries the handle's
\* execution options
Checkout(h, c) ==
    /\ h \in DOMAIN handles
    /\ pc[Owner(h)] = "ready"
    /\ handles[h].conn = 0
    /\ pool[c] = 0
    /\ \A b \in 1..(c - 1) : pool[b] # 0
    /\ handles' = [handles EXCEPT ![h].conn = c]
    /\ pool' = [pool EXCEPT ![c] = @ + 1]
    /\ UNCHANGED <<pc, observers, spans, info, cur, madeOn, last, result>>
    /\ UNCHANGED <<engine, asked, side>>

\* the caller closes its connection or its session
CallerClose(h) ==
    /\ h \in DOMAIN handles
    /\ pc[Owner(h)] = "ready"
    /\ handles[h].conn # 0
    /\ LET closed == Session_close(handles[h], pool)
       IN /\ handles' = [handles EXCEPT ![h] = closed.session]
          /\ pool' = closed.pool
    /\ UNCHANGED <<pc, observers, spans, info, cur, madeOn, last, result>>
    /\ UNCHANGED <<engine, asked, side>>

\* the caller commits the session's pending work, or rolls it back; the
\* session gives its connection back
CallerEndsWork(h, how) ==
    /\ h \in DOMAIN handles
    /\ pc[Owner(h)] = "ready"
    /\ handles[h].kind = "session"
    /\ handles[h].work = "pending"
    /\ handles' = [handles EXCEPT ![h].work = how, ![h].conn = 0]
    /\ pool' = checkin(pool, handles[h].conn)
    /\ UNCHANGED <<pc, observers, spans, info, cur, madeOn, last, result>>
    /\ UNCHANGED <<engine, asked, side>>

\* a statement reaches the cursor: the engine fires before_cursor_execute
\* and hands what the hook returns to the driver
BeforeCursorExecute(h, call) ==
    /\ h \in DOMAIN handles
    /\ pc[Owner(h)] = "ready"
    /\ handles[h].conn # 0
    /\ LET r == Owner(h)
           c == handles[h].conn
           hook == before_cursor_execute(
                       engine.listeners.before_cursor_execute,
                       handles[h].options, info[c], spans,
                       call.statement, call.parameters)
           op == [handle |-> h, conn |-> c, statement |-> call.statement,
                  parameters |-> call.parameters, sent |-> hook.ret,
                  created |-> DOMAIN hook.spans \ DOMAIN spans]
       IN /\ spans' = hook.spans
          /\ info' = [info EXCEPT ![c] = hook.slot]
          /\ madeOn' = MadeOn(hook.spans, c)
          /\ IF hook.raised = NoExc
             THEN /\ pc' = [pc EXCEPT ![r] = "executing"]
                  /\ cur' = [cur EXCEPT ![r] = op]
                  /\ last' = last
             ELSE /\ last' = Returned(op, hook.spans)
                              @@ [driver |-> NoExc, caller |-> hook.raised]
                  /\ UNCHANGED <<pc, cur>>
    /\ UNCHANGED <<handles, observers, pool, result>>
    /\ UNCHANGED <<engine, asked, side>>

\* the driver executed the statement: the engine fires after_cursor_execute
\* and the call returns
AfterCursorExecute(r) ==
    /\ pc[r] = "executing"
    /\ LET c == cur[r].conn
           h == cur[r].handle
           hook == after_cursor_execute(
                       engine.listeners.after_cursor_execute, info[c], spans)
           inf == [info EXCEPT ![c] = hook.slot]
       IN /\ spans' = collect(hook.spans, inf)
          /\ info' = inf
          /\ madeOn' = MadeOn(collect(hook.spans, inf), c)
          /\ last' = Returned(cur[r], hook.spans)
                        @@ [driver |-> NoExc, caller |-> hook.raised]
          /\ handles' = [handles EXCEPT ![h].work =
                            IF handles[h].kind = "session" THEN "pending" ELSE @]
    /\ pc' = [pc EXCEPT ![r] = "ready"]
    /\ cur' = [cur EXCEPT ![r] = NoCall]
    /\ UNCHANGED <<observers, pool, result>>
    /\ UNCHANGED <<engine, asked, side>>

\* the driver raised e while executing the statement: the engine fires
\* handle_error; an exception a listener raises replaces e, otherwise e
\* is raised to the caller
HandleError(r, e) ==
    /\ pc[r] = "executing"
    /\ LET c == cur[r].conn
           hook == handle_error(engine.listeners.handle_error, info[c],
                                spans, e)
           inf == [info EXCEPT ![c] = hook.slot]
       IN /\ spans' = collect(hook.spans, inf)
          /\ info' = inf
          /\ madeOn' = MadeOn(collect(hook.spans, inf), c)
          /\ last' = Returned(cur[r], hook.spans)
                        @@ [driver |-> e,
                            caller |-> IF hook.raised = NoExc THEN e
                                       ELSE hook.raised]
    /\ pc' = [pc EXCEPT ![r] = "ready"]
    /\ cur' = [cur EXCEPT ![r] = NoCall]
    /\ UNCHANGED <<handles, observers, pool, result>>
    /\ UNCHANGED <<engine, asked, side>>

\* the driver raised e outside a statement (begin, commit, rollback): the
\* engine fires handle_error for the connection, whose slot holds no span
HandleErrorNoStatement(h, e) ==
    /\ h \in DOMAIN handles
    /\ pc[Owner(h)] = "ready"
    /\ handles[h].conn # 0
    /\ LET c == handles[h].conn
           hook == handle_error(engine.listeners.handle_error, info[c],
                                spans, e)
           inf == [info EXCEPT ![c] = hook.slot]
       IN /\ spans' = collect(hook.spans, inf)
          /\ info' = inf
          /\ madeOn' = MadeOn(collect(hook.spans, inf), c)
          /\ last' = [NoOp EXCEPT !.handle = h, !.driver = e,
                                  !.caller = IF hook.raised = NoExc THEN e
                                             ELSE hook.raised]
    /\ UNCHANGED <<pc, handles, observers, pool, cur, result>>
    /\ UNCHANGED <<engine, asked, side>>

\* the request ends with outcome own (NoExc on success): its root span
\* finishes with the matching exc_info and notifies its observers
FinishRequest(r, own, fails) ==
    /\ pc[r] = "ready"
    /\ LET exc_info == IF own = NoExc THEN NoExcInfo
                       ELSE <<type(own), own, None>>
           done == notify(observers[r], handles, pool, exc_info, fails)
       IN /\ spans' = finish(spans, r, exc_info)
          /\ handles' = done.handles
          /\ pool' = done.pool
          /\ result' = [result EXCEPT ![r] = done.raised]
    /\ pc' = [pc EXCEPT ![r] = "ended"]
    /\ UNCHANGED <<observers, info, cur, madeOn, last>>
    /\ UNCHANGED <<engine, asked, side>>

\* the finish of an ended request's root span is signalled once more
FinishAgain(r, fails) ==
    /\ pc[r] = "ended"
    /\ spans[r].finishes < MaxFinishes
    /\ LET done == notify(observers[r], handles, pool, spans[r].exc_info, fails)
       IN /\ spans' = finish(spans, r, spans[r].exc_info)
          /\ handles' = done.handles
          /\ pool' = done.pool
          /\ result' = [result EXCEPT ![r] = done.raised]
    /\ UNCHANGED <<pc, observers, info, cur, madeOn, last>>
    /\ UNCHANGED <<engine, asked, side>>

Next ==
    \/ \E r \in Requests, name \in Range(Names) : MakeEngineHandle(r, name)
    \/ \E r \in Requests, name \in Range(Names) : MakeSessionHandle(r, name)
    \/ \E h \in 1..MaxHandles, c \in Conns : Checkout(h, c)
    \/ \E h \in 1..MaxHandles : CallerClose(h)
    \/ \E h \in 1..MaxHandles, how \in {"committed", "rolled back"} :
          CallerEndsWork(h, how)
    \/ \E h \in 1..MaxHandles, call \in Calls : BeforeCursorExecute(h, call)
    \/ \E r \in Requests : AfterCursorExecute(r)
    \/ \E r \in Requests, e \in DriverErrors : HandleError(r, e)
    \/ \E h \in 1..MaxHandles, e \in DriverErrors : HandleErrorNoStatement(h, e)
    \/ \E r \in Requests, own \in {NoExc, HandlerError}, fails \in BOOLEAN :
          FinishRequest(r, own, fails)
    \/ \E r \in Requests, fails \in BOOLEAN : FinishAgain(r, fails)

Spec == Init /\ [][Next]_vars

\* ------------------------------------------------------------------ claims
\* the operation that returned last was a statement, and one in flight
ReturnedStatement == last.handle # 0 /\ last.statement # None
Executing(r) == pc[r] = "executing"

\* the per-statement spans alive that are started and not finished
OpenSpans ==
    {i \in DOMAIN spans \ Requests :
        spans[i].starts > 0 /\ spans[i].finishes = 0}

\* C1: a statement that executed successfully made exactly one span, in
\* on_before_execute, a child of its handle's root span started once; until
\* the driver is done that span is unfinished, and when the call has returned
\* it is finished exactly once (by on_after_execute) with no error
\* information.
C1_SuccessOneSpanFinishedOnce ==
    /\ \A r \in Requests : Executing(r) =>
          /\ Cardinality(cur[r].created) = 1
          /\ \A i \in cur[r].created :
                spans[i].starts = 1 /\ spans[i].finishes = 0
    /\ (ReturnedStatement /\ last.driver = NoExc) =>
          /\ Cardinality(last.created) = 1
          /\ \A s \in last.created :
                /\ s.parent = Owner(last.handle)
                /\ s.starts = 1
                /\ s.finishes = 1
                /\ s.exc_info = NoExcInfo

C1_Witness ==
    /\ ReturnedStatement
    /\ last.driver = NoExc
    /\ last.caller = NoExc
    /\ \E s \in last.created : s.finishes = 1

\* C2: a statement whose execution raised after on_before_execute had run
\* made exactly one span, finished exactly once (by on_error) with
\* exc_info = (type of the original exception, the original exception, no
\* traceback), and its caller got the original exception.
C2_ErrorOneSpanFinishedWithError ==
    (ReturnedStatement /\ last.driver # NoExc) =>
        /\ Cardinality(last.created) = 1
        /\ \A s \in last.created :
              /\ s.starts = 1
              /\ s.finishes = 1
              /\ s.exc_info = <<last.driver.cls, last.driver, None>>
        /\ last.caller = last.driver

C2_Witness ==
    /\ ReturnedStatement
    /\ last.driver \in DriverErrors
    /\ \E s \in last.created :
          s.finishes = 1 /\ s.exc_info # NoExcInfo /\ s.exc_info[3] = None

\* C3: whatever the interleaving of the requests, no connection has more
\* than one started and unfinished per-statement span.
C3_AtMostOneOpenSpanPerConnection ==
    \A c \in Conns :
        Cardinality({i \in OpenSpans : madeOn[i] = c}) <= 1

\* two requests are executing at once, each with its open span, on a
\* connection that has carried a statement before
C3_Witness ==
    /\ \A r \in Requests : Executing(r)
    /\ Cardinality(OpenSpans) = NumRequests
    /\ ReturnedStatement
    /\ \E r \in Requests : cur[r].handle = last.handle

\* the statement of request r returns: the driver is done with it, and the
\* engine runs on_after_execute or on_error
Returns(r) == AfterCursorExecute(r) \/ \E e \in DriverErrors : HandleError(r, e)

\* C4: a per-statement span is open only while the statement that made it
\* is between on_before_execute and its on_after_execute or on_error, one
\* of which can always run; once the call has returned the span is finished,
\* so no span stays open after the call has ended.
C4_StartedSpanIsFinished ==
    /\ \A i \in OpenSpans :
          \E r \in Requests : Executing(r) /\ cur[r].created = {i}
    /\ \A r \in Requests : Executing(r) => ENABLED Returns(r)
    /\ ReturnedStatement => \A s \in last.created : s.finishes = 1

\* a statement is between its hooks, its span open, after an earlier
\* statement has returned with an error and its span finished
C4_Witness ==
    /\ \E r \in Requests : Executing(r) /\ cur[r].created \subseteq OpenSpans
    /\ ReturnedStatement
    /\ \E s \in last.created : s.finishes = 1 /\ s.exc_info # NoExcInfo

\* the sessions of the model, and the observers of root span r that carry
\* session h
Sessions == {h \in DOMAIN handles : handles[h].kind = "session"}
ObserversOf(r, h) == {i \in DOMAIN observers[r] : observers[r][i].session = h}
Finished(r) == spans[r].finishes >= 1
Failed(r) == spans[r].exc_info # NoExcInfo

\* C5: every session the session factory made is carried by one observer of
\* the root span it was made for, and on_finish has closed it once for each
\* finish of that root span, of a successful and of a failed request alike:
\* exactly once after the finish, and a second signal closes it again and
\* leaves it closed, holding no connection and no pending work.
C5_SessionClosedOncePerFinish ==
    \A h \in Sessions :
        LET r == Owner(h)
        IN /\ Cardinality(ObserversOf(r, h)) = 1
           /\ handles[h].closes = spans[r].finishes
           /\ Finished(r) => handles[h].conn = 0 /\ handles[h].work # "pending"

\* the finish of a failed request was signalled twice, and its session, which
\* held pending work when the request ended, was closed each time
C5_Witness ==
    \E h \in Sessions :
        /\ Failed(Owner(h))
        /\ spans[Owner(h)].finishes = 2
        /\ handles[h].closes = 2
        /\ handles[h].work = "discarded"

\* C6: the hooks never change the outcome of a database operation: the
\* caller of every operation on a factory-made handle sees success exactly
\* when the driver succeeded, and otherwise the driver's exception.
C6_CallerSeesDriverOutcome ==
    last.handle # 0 => last.caller = last.driver

\* C7: no on_finish call lets a failure of session.close() out.
C7_OnFinishNeverRaises ==
    \A r \in Requests : \A i \in DOMAIN result[r] : result[r][i] = NoExc

\* C8: a finish of a root span, of a successful or of a failed request,
\* commits nothing and rolls nothing back: no session becomes committed or
\* rolled back in that step, and pending work is discarded by the close.
C8_FinishNeitherCommitsNorRollsBack ==
    [][\A r \in Requests :
          spans'[r].finishes # spans[r].finishes =>
              \A h \in Sessions :
                  /\ (handles'[h].work = "committed") = (handles[h].work = "committed")
                  /\ (handles'[h].work = "rolled back") = (handles[h].work = "rolled back")
                  /\ (Owner(h) = r /\ handles[h].work = "pending")
                        => handles'[h].work = "discarded"]_vars

\* a successful request has ended with work pending in its session, and the
\* work was not committed
C8_Witness ==
    \E h \in Sessions :
        /\ Finished(Owner(h))
        /\ ~Failed(Owner(h))
        /\ handles[h].closes = 1
        /\ handles[h].work = "discarded"

\* C9, as claimed: after all requests have ended no connection remains
\* checked out, for engine handles and session handles.
C9_NoConnectionLeftCheckedOut ==
    (\A r \in Requests : pc[r] = "ended") => \A c \in Conns : pool[c] = 0

\* C9, amended: every checkout is matched by at most one release and a
\* connection is out exactly while one handle holds it; a connection checked
\* out through a session handle is released by the time the root span of its
\* request has finished, on success and on error, so that after all requests
\* have ended a connection still checked out is one an engine handle's caller
\* did not close.
C9_SessionConnectionsReleased ==
    /\ \A c \in Conns :
          /\ pool[c] \in {0, 1}
          /\ pool[c] = Cardinality({h \in DOMAIN handles : handles[h].conn = c})
    /\ \A h \in Sessions : pc[Owner(h)] = "ended" => handles[h].conn = 0
    /\ (\A r \in Requests : pc[r] = "ended") =>
          \A h \in DOMAIN handles :
              handles[h].conn # 0 => handles[h].kind = "engine"

\* every request has ended, one with a session whose last statement had
\* raised and whose pending work the close discarded, and the pool has all
\* its connections back
C9_Witness ==
    /\ \A r \in Requests : pc[r] = "ended"
    /\ \A c \in Conns : pool[c] = 0
    /\ last.handle \in Sessions
    /\ last.driver # NoExc
    /\ handles[last.handle].closes = 1
    /\ handles[last.handle].work = "discarded"

\* reading a decimal numeral back: its digits, and the number they write
IsNumeral(t) ==
    /\ Len(t) >= 1
    /\ \A k \in 1..Len(t) : \E d \in 0..9 : SubSeq(t, k, k) = DigitChar(d)
    /\ Len(t) > 1 => SubSeq(t, 1, 1) # "0"
DigitValue(ch) == CHOOSE d \in 0..9 : DigitChar(d) = ch

RECURSIVE NumeralValue(_)
NumeralValue(t) ==
    IF Len(t) = 0 THEN 0
    ELSE 10 * NumeralValue(SubSeq(t, 1, Len(t) - 1))
         + DigitValue(SubSeq(t, Len(t), Len(t)))

\* text is statement followed by " -- trace:<t>,span:<s>", t and s the
\* decimal numerals of trace_id and span_id, and nothing else
Annotates(text, statement, trace_id, span_id) ==
    LET n == Len(statement)
        rest == SubSeq(text, n + 1, Len(text))
    IN /\ Len(text) > n + 10
       /\ SubSeq(text, 1, n) = statement
       /\ \E p \in 12..(Len(rest) - 6) :
             LET t == SubSeq(rest, 11, p - 1)
                 u == SubSeq(rest, p + 6, Len(rest))
             IN /\ SubSeq(rest, 1, 10) = " -- trace:"
                /\ SubSeq(rest, p, p + 5) = ",span:"
                /\ IsNumeral(t) /\ NumeralValue(t) = trace_id
                /\ IsNumeral(u) /\ NumeralValue(u) = span_id

\* C10: what on_before_execute hands to the driver is the incoming statement
\* followed by exactly " -- trace:<trace_id>,span:<span_id>", the ids those
\* of the span it has just made, in decimal, and the parameters as they came;
\* the span is tagged with the statement as it came, and the trace id is that
\* of the root span of the handle.
C10_StatementAnnotated ==
    \A r \in Requests : Executing(r) =>
        \A i \in cur[r].created :
            /\ Len(cur[r].sent) = 2
            /\ Annotates(cur[r].sent[1], cur[r].statement,
                         spans[Owner(cur[r].handle)].trace_id, spans[i].id)
            /\ cur[r].sent[2] = cur[r].parameters
            /\ spans[i].statement = cur[r].statement
            /\ spans[i].trace_id = spans[Owner(cur[r].handle)].trace_id
            /\ spans[i].id # spans[Owner(cur[r].handle)].id

\* a statement with parameters is being executed through the second handle
C10_Witness ==
    \E r \in Requests :
        /\ Executing(r)
        /\ cur[r].parameters # <<>>
        /\ cur[r].handle > 1
        /\ cur[r].created # {}
        /\ Len(cur[r].sent) = 2

\* ------------------------------------------------------ engine_from_config
\* the position of the first occurrence of sub in s, 0 when there is none
Find(s, sub) ==
    LET hits == {i \in 1..(Len(s) - Len(sub) + 1) :
                    SubSeq(s, i, i + Len(sub) - 1) = sub}
    IN IF hits = {} THEN 0 ELSE CHOOSE i \in hits : \A j \in hits : i <= j

\* s[a:b] counted from 1, the empty text when there is nothing between
Slice(s, a, b) == IF a > b THEN "" ELSE SubSeq(s, a, b)

\* sqlalchemy.engine.url.make_url: the text
\* drivername://[username[:password]@]host[/database] taken apart
make_url(name_or_url) ==
    LET p == Find(name_or_url, "://")
        rest == Slice(name_or_url, p + 3, Len(name_or_url))
        at == Find(rest, "@")
        cred == Slice(rest, 1, at - 1)
        colon == Find(cred, ":")
        hostdb == Slice(rest, at + 1, Len(rest))
        slash == Find(hostdb, "/")
    IN [drivername |-> Slice(name_or_url, 1, p - 1),
        username |-> IF at = 0 THEN None
                     ELSE IF colon = 0 THEN cred
                     ELSE Slice(cred, 1, colon - 1),
        password |-> IF at = 0 \/ colon = 0 THEN None
                     ELSE Slice(cred, colon + 1, Len(cred)),
        host |-> IF slash = 0 THEN hostdb ELSE Slice(hostdb, 1, slash - 1),
        database |-> IF slash = 0 THEN None
                     ELSE Slice(hostdb, slash + 1, Len(hostdb))]

\* str(url): the text a URL stands for
URL_str(url) ==
    url.drivername \o "://"
      \o (IF url.username = None THEN ""
          ELSE url.username
                 \o (IF url.password = None THEN "" ELSE ":" \o url.password)
                 \o "@")
      \o url.host
      \o (IF url.database = None THEN "" ELSE "/" \o url.database)

\* the pool_recycle of an engine made without one: no timeout
DefaultPoolRecycle == -1

\* create_engine(url, **kwargs): the engine is made and no connection is
\* opened before the first use
create_engine(url, kwargs) ==
    [url |-> url, kwargs |-> kwargs,
     pool_recycle |-> IF "pool_recycle" \in DOMAIN kwargs
                      THEN kwargs["pool_recycle"] ELSE DefaultPoolRecycle,
     connections |-> 0]

\* config.Optional(config.String) and config.Optional(config.Integer) on
\* the raw text of one key; <<>> stands for None, which a missing key and
\* an empty text give
OptionalString(app_config, key) ==
    IF key \notin DOMAIN app_config \/ app_config[key] = "" THEN <<>>
    ELSE <<app_config[key]>>
OptionalInteger(app_config, key) ==
    IF key \notin DOMAIN app_config \/ app_config[key] = "" THEN <<>>
    ELSE <<NumeralValue(app_config[key])>>

\* config.SpecParser(...).parse(key_path, app_config) for the three keys of
\* engine_from_config: url is required, and a pool_recycle that is no
\* integer is refused
parse(key_path, app_config) ==
    LET url == key_path \o ".url"
        credentials_secret == key_path \o ".credentials_secret"
        pool_recycle == key_path \o ".pool_recycle"
    IN IF url \notin DOMAIN app_config \/ app_config[url] = ""
       THEN [raised |-> Exc("ConfigurationError", url), options |-> <<>>]
       ELSE IF /\ pool_recycle \in DOMAIN app_config
               /\ app_config[pool_recycle] # ""
               /\ ~IsNumeral(app_config[pool_recycle])
       THEN [raised |-> Exc("ConfigurationError", pool_recycle),
             options |-> <<>>]
       ELSE [raised |-> NoExc,
             options |-> [url |-> app_config[url],
                 credentials_secret |->
                     OptionalString(app_config, credentials_secret),
                 pool_recycle |-> OptionalInteger(app_config, pool_recycle)]]

\* the pool_recycle step with the configured value replacing the caller's
engine_from_config_pool_recycle_overriding(options, kwargs) ==
    IF options.pool_recycle # <<>>
    THEN ("pool_recycle" :> options.pool_recycle[1]) @@ kwargs
    ELSE kwargs

\* engine_from_config, lines 63-64: kwargs.setdefault("pool_recycle", ...)
\* when the configuration gives a pool_recycle
engine_from_config_pool_recycle(options, kwargs) ==
    IF options.pool_recycle # <<>>
    THEN kwargs @@ ("pool_recycle" :> options.pool_recycle[1])
    ELSE kwargs

\* the credentials step going on without credentials when no secrets store
\* was given
engine_from_config_credentials_lenient(options, secrets, url) ==
    IF options.credentials_secret # <<>> /\ secrets.supplied
    THEN LET credentials == secrets.store[options.credentials_secret[1]]
         IN [raised |-> NoExc,
             url |-> [url EXCEPT !.username = credentials.username,
                                 !.password = credentials.password]]
    ELSE [raised |-> NoExc, url |-> url]

\* the credentials step replacing the user name and keeping the password
engine_from_config_credentials_username_only(options, secrets, url) ==
    IF options.credentials_secret # <<>>
    THEN IF ~secrets.supplied
         THEN [raised |-> Exc("TypeError",
                   "'secrets' is required if 'credentials_secret' is set"),
               url |-> url]
         ELSE LET credentials == secrets.store[options.credentials_secret[1]]
              IN [raised |-> NoExc,
                  url |-> [url EXCEPT !.username = credentials.username]]
    ELSE [raised |-> NoExc, url |-> url]

\* engine_from_config, lines 66-71: with a credentials_secret the secrets
\* store is required, and the credentials it holds replace those of the url
engine_from_config_credentials(options, secrets, url) ==
    IF options.credentials_secret # <<>>
    THEN IF ~secrets.supplied
         THEN [raised |-> Exc("TypeError",
                   "'secrets' is required if 'credentials_secret' is set"),
               url |-> url]
         ELSE LET credentials == secrets.store[options.credentials_secret[1]]
              IN [raised |-> NoExc,
                  url |-> [url EXCEPT !.username = credentials.username,
                                      !.password = credentials.password]]
    ELSE [raised |-> NoExc, url |-> url]

\* what a call that raises gives: no engine, no connection
Raises(e) == [raised |-> e, engine |-> <<>>, connections |-> 0]

\* engine_from_config(app_config, secrets, prefix, **kwargs)
engine_from_config(app_config, secrets, prefix, kwargs) ==
    IF Slice(prefix, Len(prefix), Len(prefix)) # "."
    THEN Raises(Exc("AssertionError", ""))
    ELSE
      LET parsed == parse(Slice(prefix, 1, Len(prefix) - 1), app_config)
      IN IF parsed.raised # NoExc THEN Raises(parsed.raised)
         ELSE
           LET options == parsed.options
               url == make_url(options.url)
               kw == engine_from_config_pool_recycle(options, kwargs)
               cred == engine_from_config_credentials(options, secrets, url)
           IN IF cred.raised # NoExc THEN Raises(cred.raised)
              ELSE [raised |-> NoExc,
                    engine |-> <<create_engine(cred.url, kw)>>,
                    connections |-> create_engine(cred.url, kw).connections]

\* the settings and arguments engine_from_config is called with
Urls == {"db://host/db", "db://user:pass@host/db",
         "postgresql://app@db.internal/orders"}
Setting(key, texts) == {<<>>} \cup {(key :> t) : t \in texts}
AppConfigs ==
    {u @@ c @@ p :
        u \in Setting("database.url", Urls),
        c \in Setting("database.credentials_secret", {"", "db/creds"}),
        p \in Setting("database.pool_recycle", {"3600", "0", "soon"})}
NoSecrets == [supplied |-> FALSE, store |-> <<>>]
SecretsStore ==
    [supplied |-> TRUE,
     store |-> ("db/creds" :> [username |-> "svc", password |-> "s3cr3t"])]
Prefixes == {"database.", "database"}
Kwargs == {<<>>, ("pool_recycle" :> 1800), ("pool_size" :> 5)}
NoOutcome == [raised |-> NoExc, engine |-> <<>>, connections |-> 0]

ConfigInit ==
    /\ InitServing /\ qpool = <<>> /\ probe = <<>>
    /\ build \in [app_config : AppConfigs, secrets : {NoSecrets, SecretsStore},
                  prefix : Prefixes, kwargs : Kwargs, called : {FALSE},
                  outcome : {NoOutcome}]

\* the application builds its engine from its settings
EngineFromConfig ==
    /\ ~build.called
    /\ build' = [build EXCEPT
                   !.called = TRUE,
                   !.outcome = engine_from_config(build.app_config,
                                   build.secrets, build.prefix, build.kwargs)]
    /\ UNCHANGED <<serving, qpool, probe>>

ConfigNext == EngineFromConfig
ConfigSpec == ConfigInit /\ [][ConfigNext]_vars

\* the settings parse, and what they hold
Parsed == parse("database", build.app_config)
SettingsValid == build.prefix = "database." /\ Parsed.raised = NoExc
CredentialsSecretSet ==
    /\ "database.credentials_secret" \in DOMAIN build.app_config
    /\ build.app_config["database.credentials_secret"] # ""
Built == build.called /\ build.outcome.engine # <<>>

C12_PoolRecycleMergeOrder ==
    Built =>
      LET passed == build.outcome.engine[1].kwargs
          configured == Parsed.options.pool_recycle
      IN /\ "pool_recycle" \in DOMAIN build.kwargs
            => /\ "pool_recycle" \in DOMAIN passed
               /\ passed["pool_recycle"] = build.kwargs["pool_recycle"]
         /\ ("pool_recycle" \notin DOMAIN build.kwargs /\ configured # <<>>)
            => /\ "pool_recycle" \in DOMAIN passed
               /\ passed["pool_recycle"] =
                    NumeralValue(build.app_config["database.pool_recycle"])
         /\ ("pool_recycle" \notin DOMAIN build.kwargs /\ configured = <<>>)
            => /\ "pool_recycle" \notin DOMAIN passed
               /\ build.outcome.engine[1].pool_recycle = DefaultPoolRecycle
         /\ \A k \in DOMAIN build.kwargs :
               k \in DOMAIN passed /\ passed[k] = build.kwargs[k]

C12_Witness ==
    /\ Built
    /\ "pool_recycle" \in DOMAIN build.kwargs
    /\ Parsed.options.pool_recycle # <<>>
    /\ Parsed.options.pool_recycle[1] # build.kwargs["pool_recycle"]

\* C13: with credentials_secret set and a secrets resolver given, the url
\* of the engine has the resolved user name and password and the scheme,
\* host and database of the configured url; without credentials_secret it is
\* the configured url, text for text
C13_CredentialsReplaceThoseOfUrl ==
    Built =>
      LET url == build.outcome.engine[1].url
          text == build.app_config["database.url"]
      IN IF CredentialsSecretSet
         THEN LET credentials == build.secrets.store["db/creds"]
              IN /\ url.username = credentials.username
                 /\ url.password = credentials.password
                 /\ url.drivername = make_url(text).drivername
                 /\ url.host = make_url(text).host
                 /\ url.database = make_url(text).database
                 /\ URL_str(url) =
                      url.drivername \o "://" \o credentials.username \o ":"
                        \o credentials.password \o "@" \o url.host \o "/"
                        \o url.database
         ELSE url = make_url(text) /\ URL_str(url) = text

C13_Witness ==
    /\ Built /\ CredentialsSecretSet
    /\ make_url(build.app_config["database.url"]).password = "pass"
    /\ build.outcome.engine[1].url.password = "s3cr3t"

\* -------------------------------------------------- report_runtime_metrics
MaxPoolSize == 2      \* the largest pool_size of the engine's pool
MaxOverflow == 2      \* the largest max_overflow of the engine's pool

Max(a, b) == IF a >= b THEN a ELSE b

\* QueuePool(pool_size, max_overflow) as it is made: an empty queue of
\* pool_size places, the overflow counter at -pool_size.  out counts the
\* connections handed out and not yet given back.
QueuePool(pool_size, max_overflow) ==
    [kind |-> "QueuePool", maxsize |-> pool_size,
     max_overflow |-> max_overflow, qsize |-> 0, overflow |-> 0 - pool_size,
     out |-> 0]

\* a pool that is no QueuePool: it keeps no queue
NullPool ==
    [kind |-> "NullPool", maxsize |-> 0, max_overflow |-> 0, qsize |-> 0,
     overflow |-> 0, out |-> 0]

\* QueuePool.size(), checkedin(), overflow() and checkedout()
size(p) == p.maxsize
checkedin(p) == p.qsize
overflow(p) == p.overflow
checkedout(p) == p.maxsize - p.qsize + p.overflow

\* batch.gauge(name).replace(value)
gauge_replace(batch, name, value) == (name :> value) @@ batch

\* report_runtime_metrics reporting the overflow counter as it is
report_runtime_metrics_unfloored(p, batch) ==
    IF p.kind # "QueuePool" THEN batch
    ELSE gauge_replace(gauge_replace(gauge_replace(gauge_replace(batch,
             "pool.size", size(p)),
             "pool.open_and_available", checkedin(p)),
             "pool.in_use", checkedout(p)),
             "pool.overflow", overflow(p))

\* SQLAlchemyEngineContextFactory.report_runtime_metrics(batch) with
\* self.engine.pool = p.  Gives the batch as the call leaves it.
report_runtime_metrics(p, batch) ==
    IF p.kind # "QueuePool" THEN batch
    ELSE gauge_replace(gauge_replace(gauge_replace(gauge_replace(batch,
             "pool.size", size(p)),
             "pool.open_and_available", checkedin(p)),
             "pool.in_use", checkedout(p)),
             "pool.overflow", Max(overflow(p), 0))

PoolInit ==
    /\ InitServing /\ build = <<>> /\ probe = <<>>
    /\ \E p \in {NullPool} \cup {QueuePool(n, m) : n \in 1..MaxPoolSize,
                                                  m \in 0..MaxOverflow} :
          qpool = [pool |-> p, reported |-> FALSE, read |-> p, gauges |-> <<>>]

\* a connection is checked out: one from the queue, or a new one while the
\* overflow counter is below max_overflow
PoolGet ==
    /\ LET p == qpool.pool
       IN IF p.kind # "QueuePool"
          THEN /\ p.out < MaxPoolSize + MaxOverflow
               /\ qpool' = [qpool EXCEPT !.pool.out = @ + 1]
          ELSE IF p.qsize > 0
          THEN qpool' = [qpool EXCEPT !.pool.qsize = @ - 1, !.pool.out = @ + 1]
          ELSE /\ p.overflow < p.max_overflow
               /\ qpool' = [qpool EXCEPT !.pool.overflow = @ + 1,
                                         !.pool.out = @ + 1]
    /\ UNCHANGED <<serving, build, probe>>

\* a connection is given back: into the queue, or closed when the queue is
\* full, which takes one off the overflow counter
PoolReturn ==
    /\ qpool.pool.out > 0
    /\ LET p == qpool.pool
       IN IF p.kind # "QueuePool"
          THEN qpool' = [qpool EXCEPT !.pool.out = @ - 1]
          ELSE IF p.qsize < p.maxsize
          THEN qpool' = [qpool EXCEPT !.pool.qsize = @ + 1, !.pool.out = @ - 1]
          ELSE qpool' = [qpool EXCEPT !.pool.overflow = @ - 1,
                                      !.pool.out = @ - 1]
    /\ UNCHANGED <<serving, build, probe>>

\* the metrics reporter calls report_runtime_metrics with a new batch; read
\* keeps the pool as it was at the call
ReportRuntimeMetrics ==
    /\ qpool' = [qpool EXCEPT
                   !.reported = TRUE, !.read = qpool.pool,
                   !.gauges = report_runtime_metrics(qpool.pool, <<>>)]
    /\ UNCHANGED <<serving, build, probe>>

PoolNext == PoolGet \/ PoolReturn \/ ReportRuntimeMetrics
PoolSpec == PoolInit /\ [][PoolNext]_vars

\* C14: a report on a pool that is no QueuePool leaves the batch without a
\* gauge; on a QueuePool it leaves exactly the four gauges, pool.size the
\* size, pool.open_and_available the connections in the queue, pool.in_use
\* the connections out and pool.overflow max(out + in - size, 0), which is
\* never negative
C14_FourGaugesOverflowFloored ==
    qpool.reported =>
      LET p == qpool.read
          g == qpool.gauges
      IN IF p.kind # "QueuePool" THEN DOMAIN g = {}
         ELSE /\ DOMAIN g = {"pool.size", "pool.open_and_available",
                             "pool.in_use", "pool.overflow"}
              /\ g["pool.size"] = p.maxsize
              /\ g["pool.open_and_available"] = p.qsize
              /\ g["pool.in_use"] = p.out
              /\ g["pool.overflow"] = Max(p.out + p.qsize - p.maxsize, 0)
              /\ g["pool.overflow"] >= 0

\* a report on a pool under its size, and one on a pool over it
C14_Witness ==
    /\ qpool.reported /\ qpool.read.kind = "QueuePool"
    /\ qpool.read.out + qpool.read.qsize < qpool.read.maxsize
    /\ qpool.gauges["pool.overflow"] = 0
C14_WitnessOver ==
    /\ qpool.reported /\ qpool.read.kind = "QueuePool"
    /\ qpool.gauges["pool.overflow"] > 0

\* ------------------------------------ before_cursor_execute on any handle
\* execution options a connection of the factory's engine can carry: those
\* of the factory's engine itself, of handles derived from it by hand, and
\* of the handles make_object_for_context makes
ExecutionOptions ==
    {<<>>, [isolation_level |-> "AUTOCOMMIT"]}
      \cup {[context_name |-> n] : n \in {"db", "users_db"}}
      \cup {[server_span |-> r] : r \in Requests}
      \cup {[context_name |-> n, server_span |-> r] :
                n \in {"db", "users_db"}, r \in Requests}

\* the spans alive at the event: the root spans, alone or with the span of
\* a statement executing on another connection
Roots == [r \in Requests |-> RootSpan(r)]
SpanTables ==
    {Roots, start(set_tag(make_child(Roots, 1, "db.execute"),
                          Fresh(Roots), "SELECT 1"), Fresh(Roots))}

NoHook == [raised |-> NoExc, spans |-> Roots, slot |-> InfoEmpty, ret |-> <<>>]

ProbeInit ==
    /\ InitServing /\ build = <<>> /\ qpool = <<>>
    /\ probe \in [options : ExecutionOptions, slot : {InfoEmpty, InfoNone},
                  spans : SpanTables, call : Calls, fired : {FALSE},
                  outcome : {NoHook}]

\* a statement reaches the cursor on a connection carrying probe.options:
\* the engine fires before_cursor_execute
ProbeBeforeCursorExecute ==
    /\ ~probe.fired
    /\ probe' = [probe EXCEPT
                   !.fired = TRUE,
                   !.outcome = before_cursor_execute(
                                   engine.listeners.before_cursor_execute,
                                   probe.options, probe.slot, probe.spans,
                                   probe.call.statement,
                                   probe.call.parameters)]
    /\ UNCHANGED <<serving, build, qpool>>

ProbeNext == ProbeBeforeCursorExecute
ProbeSpec == ProbeInit /\ [][ProbeNext]_vars

LacksOption ==
    \/ "context_name" \notin DOMAIN probe.options
    \/ "server_span" \notin DOMAIN probe.options

\* C15: a statement on a connection whose execution options lack
\* context_name or server_span fails in on_before_execute with a KeyError;
\* the failing call makes no span, starts none, leaves the "span" slot of
\* the connection as it was and hands no statement to the driver
C15_MissingOptionFailsWithoutSpan ==
    (probe.fired /\ LacksOption)
    => /\ probe.outcome.raised.cls = "KeyError"
       /\ probe.outcome.raised.msg \in {"context_name", "server_span"}
       /\ DOMAIN probe.outcome.spans = DOMAIN probe.spans
       /\ probe.outcome.spans = probe.spans
       /\ probe.outcome.slot = probe.slot
       /\ probe.outcome.ret = <<>>

C15_Witness ==
    /\ probe.fired
    /\ "context_name" \in DOMAIN probe.options
    /\ "server_span" \notin DOMAIN probe.options
    /\ probe.slot = InfoNone
    /\ probe.outcome.raised = Exc("KeyError", "server_span")

\* ------------------------------------------- handles, hooks and observers
\* C16: make_object_for_context changes nothing that exists: the factory's
\* engine (options, listeners), the pool, the connections' slots and every
\* handle made before stay as they are; the options of the new handle are
\* the arguments of the call, and the options of a handle never change
C16_MakeObjectIsSideEffectFree ==
    [][/\ \A h \in DOMAIN handles : handles'[h].options = handles[h].options
       /\ \A h \in DOMAIN handles' :
             handles'[h].options = [context_name |-> asked'[h].name,
                                    server_span |-> asked'[h].span]
       /\ Len(handles') > Len(handles)
          => /\ engine' = engine
             /\ pool' = pool
             /\ info' = info
             /\ \A h \in DOMAIN handles : handles'[h] = handles[h]]_vars

\* a second handle exists beside one that holds a connection and work
C16_Witness ==
    /\ Len(handles) = 2
    /\ handles[1].conn # 0 /\ handles[1].work = "pending"
    /\ asked[1] # asked[2]
    /\ handles[2].options.server_span = asked[2].span

\* C17: every span of a statement is a child of the root span the issuing
\* handle was made for, in that root's trace, and is named after the
\* handle's context_name followed by ".execute"; this holds also on a
\* connection another request's statement used before
C17_SpanChildOfIssuingRequest ==
    /\ \A r \in Requests : Executing(r) =>
          \A i \in cur[r].created :
             /\ spans[i].parent = asked[cur[r].handle].span
             /\ spans[i].trace_id = spans[asked[cur[r].handle].span].trace_id
             /\ spans[i].name = asked[cur[r].handle].name \o ".execute"
    /\ ReturnedStatement =>
          \A sp \in last.created :
             /\ sp.parent = asked[last.handle].span
             /\ sp.trace_id = spans[asked[last.handle].span].trace_id
             /\ sp.name = asked[last.handle].name \o ".execute"
    /\ \A i \in DOMAIN spans \ Requests : spans[i].parent \in Requests

\* a statement executes on connection 1, the only connection a statement
\* ever used, after a statement of another request's session
C17_Witness ==
    \E r \in Requests, h \in DOMAIN handles :
        /\ Executing(r) /\ cur[r].conn = 1 /\ cur[r].created # {}
        /\ info[2] = InfoEmpty
        /\ asked[h].span # r
        /\ handles[h].work # "none"

\* C18: the "span" slot of a connection holds a span only while a statement
\* executes on the connection, and then the one unfinished span that
\* statement's on_before_execute made; once on_after_execute or on_error has
\* run the slot holds no span, so it never refers to a finished span
C18_SlotHoldsOnlyTheSpanInFlight ==
    \A c \in Conns :
        LET users == {r \in Requests : Executing(r) /\ cur[r].conn = c}
        IN IF users = {}
           THEN info[c].span = 0
           ELSE \A r \in users :
                   /\ info[c].has /\ info[c].span # 0
                   /\ cur[r].created = {info[c].span}
                   /\ spans[info[c].span].finishes = 0
                   /\ spans[info[c].span].starts = 1

\* a statement has returned, its connection's slot holds None, while a
\* statement executes on the other connection
C18_Witness ==
    /\ ReturnedStatement
    /\ \E c \in Conns : info[c] = InfoNone
    /\ \E r \in Requests : Executing(r) /\ info[cur[r].conn].span # 0

\* C19: the factory's engine has one listener per event however many
\* handles were made, so a statement on any handle makes one span, which is
\* started once and finished once
C19_HooksInstalledOnce ==
    /\ \A ev \in DOMAIN engine.listeners : Len(engine.listeners[ev]) = 1
    /\ \A r \in Requests : Executing(r) => Cardinality(cur[r].created) = 1
    /\ ReturnedStatement =>
          /\ Cardinality(last.created) = 1
          /\ \A sp \in last.created : sp.starts = 1 /\ sp.finishes = 1

C19_Witness ==
    /\ Len(handles) = 2
    /\ ReturnedStatement /\ last.handle = 2
    /\ Cardinality(last.created) = 1

\* C20: each session is carried by exactly one observer, registered on the
\* root span the session was made for, and an engine handle by none; a
\* session is closed as often as its own root span finished, so the finish
\* of another request's root span never closes it
C20_FinishClosesOwnSessionsOnly ==
    /\ \A r \in Requests : \A k \in DOMAIN observers[r] :
          LET h == observers[r][k].session
          IN /\ h \in DOMAIN handles
             /\ handles[h].kind = "session"
             /\ asked[h].span = r
    /\ \A h \in DOMAIN handles :
          /\ Cardinality({<<r, k>> \in Requests \X (1..MaxHandles) :
                             /\ k \in DOMAIN observers[r]
                             /\ observers[r][k].session = h})
               = IF handles[h].kind = "session" THEN 1 ELSE 0
          /\ handles[h].closes
               = IF handles[h].kind = "session"
                 THEN spans[asked[h].span].finishes ELSE 0

\* one request has ended and closed its session; the session of the other,
\* which has not ended, still holds its connection
C20_Witness ==
    \E g, h \in DOMAIN handles :
        /\ asked[g].span # asked[h].span
        /\ pc[asked[g].span] = "ended" /\ handles[g].closes > 0
        /\ handles[h].kind = "session" /\ pc[asked[h].span] # "ended"
        /\ handles[h].conn # 0 /\ handles[h].closes = 0

=============================================================================
